---- MODULE Spec2Model ----
(***************************************************************************)
(* Planar linkage pose solving: the residual assembler, the flat pose      *)
(* vector packing, the two solve entry points (the dict based              *)
(* solver.solve_linkage and the method Linkage2D.solve_linkage) and the    *)
(* two animation drivers of linkage_tools.py.                              *)
(*                                                                         *)
(* Python objects are modelled with a heap: a pose dict is an address into *)
(* `heap`, so two containers that hold the same dict hold the same         *)
(* address.  Python's 0-based list indices are 1-based here.               *)
(*                                                                         *)
(* Numbers.  A number of a document, of a pose or of a pose vector is a    *)
(* whole number and stands for the float of that value, whatever the unit  *)
(* it is read in: the angle 90 is 90 degrees where the code reads degrees  *)
(* and 90 radians where it reads radians.  Computed floats are fixed-point *)
(* integers: a residual entry and a driving target are in units of         *)
(* 1/Scale, a world coordinate in units of 1/Fix, a cosine or a sine in    *)
(* units of 1/TrigScale.  Read as degrees, an angle is a multiple of 90    *)
(* and its cosine and sine are exact (the floating-point cosine of a       *)
(* quarter turn, 6e-17 in the code, is 0 here); read as radians, its       *)
(* cosine and sine are those of math.cos and math.sin to 8 decimals, and   *)
(* products are rounded down to the scale of their result.  float() of a   *)
(* number keeps its value.                                                 *)
(*                                                                         *)
(* least_squares (scipy) is the environment: it calls the residual         *)
(* callback at x0 and then at points of its choice, and returns one of the *)
(* points it tried with a success flag.  FuncAnimation (matplotlib) calls  *)
(* animate_frame for frame 0 when it starts, then for the frames in order, *)
(* and with repeat=True starts again when the frames are exhausted.        *)
(***************************************************************************)
EXTENDS Integers, Sequences, FiniteSets, TLC

VARIABLES
    data,       \* the loaded document: [unit_angle, links, joints]
    heap,       \* address -> pose dict [position |-> <<x, y>>, angle |-> a]
    unit_attr,  \* the function attribute constraint_equations.unit_angle
    prog,       \* the entry point this run exercises
    pc,         \* position of the running program
    arg,        \* the arguments of the call under study
    out,        \* what the call under study returned
    call,       \* the running solve: locals of solve_linkage and least_squares
    pre,        \* the heap when the running solve was called
    anim,       \* locals of the running animation driver
    linkage     \* the Linkage2D object built from the document, when there is one

vars == <<data, heap, unit_attr, prog, pc, arg, out, call, pre, anim, linkage>>

\* ------------------------------------------------------------------ bounds
MaxJoints == 2      \* joints in a document of the assembler runs
MaxEvals == 2       \* residual evaluations least_squares makes after fun(x0)
NFrames == 2        \* targets of an animation sequence (n_frames)
MaxRepeats == 1     \* times an animation starts its frames again
MaxCalls == 2       \* consecutive solves of one model

\* ---------------------------------------------------------------- helpers
None == [isNone |-> TRUE]

Some(v) == [isNone |-> FALSE, val |-> v]

Range(s) == {s[i] : i \in 1..Len(s)}

RECURSIVE SeqsUpTo(_, _)
SeqsUpTo(S, n) ==
    IF n = 0 THEN {<<>>}
    ELSE LET shorter == SeqsUpTo(S, n - 1)
         IN  shorter \cup {Append(s, e) : s \in {t \in shorter : Len(t) = n - 1}, e \in S}

\* next(e for e in seq if e['id'] == id): index of the first match, 0 when
\* the generator is exhausted (StopIteration)
Find(seq, id) ==
    IF \E i \in 1..Len(seq) : seq[i].id = id
    THEN CHOOSE i \in 1..Len(seq) :
            /\ seq[i].id = id
            /\ \A k \in 1..(i - 1) : seq[k].id # id
    ELSE 0

\* ------------------------------------------------------------ fixed point
Scale == 10000          \* a residual entry or a driving target e stands for e / Scale
Fix == 1000000          \* a world coordinate w stands for w / Fix
TrigScale == 100000000  \* a cosine or sine c stands for c / TrigScale

\* floor(c * x / 100) for a cosine or sine c and a whole number x, without
\* leaving 32 bits: a local coordinate times a cosine, as a world coordinate
TrigTimes(c, x) == (c \div 10000) * x * 100 + ((c % 10000) * x) \div 100

\* floor(a * b / 10^8) without leaving 32 bits: the product of two numbers
\* of scale Fix, as a number of scale Scale
Times(a, b) ==
    LET a1 == a \div 10000
        a0 == a % 10000
        b1 == b \div 10000
        b0 == b % 10000
    IN  a1 * b1 + (a1 * b0 + a0 * b1 + (a0 * b0) \div 10000) \div 10000

\* a number of scale Fix (or a cosine, to scale Fix), rounded to the next scale
Rounded(v) == (v + 50) \div 100

\* ------------------------------------------------------------ trigonometry
\* A radian measure is quarter * pi/2 + whole.  math.radians of a multiple
\* of 90 degrees is a count of quarter turns; a number read as radians is a
\* whole number of radians.
radians(angle) == CASE angle % 90 = 0 -> [quarter |-> angle \div 90, whole |-> 0]

AsRadians(angle) == [quarter |-> 0, whole |-> angle]

Plus(a, b) == [quarter |-> a.quarter + b.quarter, whole |-> a.whole + b.whole]

\* math.cos and math.sin of a whole number of radians, to 8 decimals
CosWhole(n) == CASE n = 0   -> 100000000
                 [] n = 90  -> -44807362
                 [] n = 180 -> -59846007
                 [] n = 270 -> 98438195
                 [] n = 360 -> -28369109
                 [] n = 450 -> -73015296

SinWhole(n) == CASE n = 0   -> 0
                 [] n = 90  -> 89399666
                 [] n = 180 -> -80115264
                 [] n = 270 -> -17604595
                 [] n = 360 -> 95891572
                 [] n = 450 -> -68328373

cos(a) == CASE a.whole = 0 ->
                 (CASE a.quarter % 4 = 0 -> TrigScale
                    [] a.quarter % 4 = 1 -> 0
                    [] a.quarter % 4 = 2 -> -TrigScale
                    [] OTHER             -> 0)
            [] a.whole # 0 /\ a.quarter = 0 -> CosWhole(a.whole)

sin(a) == CASE a.whole = 0 ->
                 (CASE a.quarter % 4 = 0 -> 0
                    [] a.quarter % 4 = 1 -> TrigScale
                    [] a.quarter % 4 = 2 -> 0
                    [] OTHER             -> -TrigScale)
            [] a.whole # 0 /\ a.quarter = 0 -> SinWhole(a.whole)

\* a variant that rotates clockwise
transform_point_cw(local_pos, pose, unit_angle) ==
    LET x == local_pos[1]
        y == local_pos[2]
        angle == IF unit_angle = "deg" THEN radians(pose.angle) ELSE AsRadians(pose.angle)
        tx == pose.position[1]
        ty == pose.position[2]
    IN  <<TrigTimes(cos(angle), x) + TrigTimes(sin(angle), y) + tx * Fix,
          TrigTimes(cos(angle), y) - TrigTimes(sin(angle), x) + ty * Fix>>

transform_point(local_pos, pose, unit_angle) ==
    LET x == local_pos[1]
        y == local_pos[2]
        angle == IF unit_angle = "deg" THEN radians(pose.angle) ELSE AsRadians(pose.angle)
        cos_a == cos(angle)
        sin_a == sin(angle)
        tx == pose.position[1]
        ty == pose.position[2]
    IN  <<TrigTimes(cos_a, x) - TrigTimes(sin_a, y) + tx * Fix,
          TrigTimes(sin_a, x) + TrigTimes(cos_a, y) + ty * Fix>>

\* ----------------------------------------------------------------- packing
RECURSIVE NonGroundedFrom(_, _)
NonGroundedFrom(links, i) ==
    IF i > Len(links) THEN <<>>
    ELSE (IF ~links[i].isGrounded THEN <<i>> ELSE <<>>) \o NonGroundedFrom(links, i + 1)

RECURSIVE PoseVecOf(_, _, _)
PoseVecOf(links, h, idxs) ==
    IF idxs = <<>> THEN <<>>
    ELSE LET p == h[links[Head(idxs)].pose]
         IN  p.position \o <<p.angle>> \o PoseVecOf(links, h, Tail(idxs))

\* a variant that packs every link, grounded or not
get_link_pose_vector_all(links, h) ==
    LET all == [i \in 1..Len(links) |-> i]
    IN  [pose_vec |-> PoseVecOf(links, h, all), non_grounded_indices |-> all]

get_link_pose_vector(links, h) ==
    LET non_grounded_indices == NonGroundedFrom(links, 1)
    IN  [pose_vec |-> PoseVecOf(links, h, non_grounded_indices),
         non_grounded_indices |-> non_grounded_indices]

\* a variant that writes the k-th triple to the k-th link of the list
set_link_poses_by_rank(h, links, pose_vec, non_grounded_indices) ==
    [a \in DOMAIN h |->
        IF \E k \in 1..Len(non_grounded_indices) : links[k].pose = a
        THEN LET k == CHOOSE k \in 1..Len(non_grounded_indices) : links[k].pose = a
             IN  [position |-> <<pose_vec[3 * k - 2], pose_vec[3 * k - 1]>>,
                  angle |-> pose_vec[3 * k]]
        ELSE h[a]]

RECURSIVE set_link_poses_from_vector(_, _, _, _)
set_link_poses_from_vector(h, links, pose_vec, non_grounded_indices) ==
    IF non_grounded_indices = <<>> THEN h
    ELSE LET i == Head(non_grounded_indices)
             h1 == [h EXCEPT ![links[i].pose] =
                        [position |-> <<pose_vec[1], pose_vec[2]>>, angle |-> pose_vec[3]]]
         IN  set_link_poses_from_vector(h1, links, SubSeq(pose_vec, 4, Len(pose_vec)),
                                        Tail(non_grounded_indices))

\* [i for i, g in enumerate(grounded_mask) if not g]
RECURSIVE FreeOfMask(_, _)
FreeOfMask(grounded_mask, i) ==
    IF i > Len(grounded_mask) THEN <<>>
    ELSE (IF ~grounded_mask[i] THEN <<i>> ELSE <<>>) \o FreeOfMask(grounded_mask, i + 1)

\* [i not in non_grounded_indices for i in range(len(links))]
GroundedMask(links, non_grounded_indices) ==
    [i \in 1..Len(links) |-> i \notin Range(non_grounded_indices)]

\* ---------------------------------------------------- constraint assembler
Raised(e) == [raised |-> e, eqs |-> <<>>]

Eqs(e) == [raised |-> "", eqs |-> e]

\* joint.get(key, default)
Get(joint, key, default) == IF key \in DOMAIN joint THEN joint[key] ELSE default

RevoluteEqs(joint, links, h, unit_angle) ==
    LET pl == Find(links, joint.parent)
        cl == Find(links, joint.child)
    IN  IF pl = 0 \/ cl = 0 THEN Raised("StopIteration")
        ELSE LET pp == Find(links[pl].points, joint.point_id_parent)
                 cp == Find(links[cl].points, joint.point_id_child)
             IN  IF pp = 0 \/ cp = 0 THEN Raised("StopIteration")
                 ELSE LET parent_global == transform_point(links[pl].points[pp].position,
                                                           h[links[pl].pose], unit_angle)
                          child_global == transform_point(links[cl].points[cp].position,
                                                          h[links[cl].pose], unit_angle)
                      IN  Eqs(<<Rounded(parent_global[1] - child_global[1]),
                                Rounded(parent_global[2] - child_global[2])>>)

PrismaticEqs(joint, links, h, unit_angle) ==
    LET pl == Find(links, joint.parent)
        cl == Find(links, joint.child)
    IN  IF pl = 0 \/ cl = 0 THEN Raised("StopIteration")
        ELSE LET pp == Find(links[pl].points, joint.axis_parent.point_id)
                 pd == Find(links[pl].directions, joint.axis_parent.direction_id)
                 cp == Find(links[cl].points, joint.axis_child.point_id)
                 cd == Find(links[cl].directions, joint.axis_child.direction_id)
             IN  IF pp = 0 \/ pd = 0 \/ cp = 0 \/ cd = 0 THEN Raised("StopIteration")
                 ELSE LET deg == unit_angle = "deg"
                          axis_angle_p == links[pl].directions[pd].angle
                          axis_angle_c == links[cl].directions[cd].angle
                          parent_pose_angle == h[links[pl].pose].angle
                          child_pose_angle == h[links[cl].pose].angle
                          world_axis_angle_p ==
                              IF deg THEN Plus(radians(axis_angle_p), radians(parent_pose_angle))
                              ELSE AsRadians(axis_angle_p + parent_pose_angle)
                          world_axis_angle_c ==
                              IF deg THEN Plus(radians(axis_angle_c), radians(child_pose_angle))
                              ELSE AsRadians(axis_angle_c + child_pose_angle)
                          dir_vec_p == <<Rounded(cos(world_axis_angle_p)),
                                         Rounded(sin(world_axis_angle_p))>>
                          dir_vec_c == <<Rounded(cos(world_axis_angle_c)),
                                         Rounded(sin(world_axis_angle_c))>>
                          axis_origin_p == transform_point(links[pl].points[pp].position,
                                                           h[links[pl].pose], unit_angle)
                          axis_origin_c == transform_point(links[cl].points[cp].position,
                                                           h[links[cl].pose], unit_angle)
                          v == <<axis_origin_c[1] - axis_origin_p[1],
                                 axis_origin_c[2] - axis_origin_p[2]>>
                      IN  Eqs(<<Times(dir_vec_p[1], dir_vec_c[2])
                                    - Times(dir_vec_p[2], dir_vec_c[1]),
                                Times(v[1], dir_vec_p[2]) - Times(v[2], dir_vec_p[1])>>)

\* a variant whose group has two entries
PinInSlotEqsTwo(joint, links, h, unit_angle) ==
    IF Find(links, joint.parent) = 0 \/ Find(links, joint.child) = 0
    THEN Raised("StopIteration")
    ELSE Eqs(<<0, 0>>)

PinInSlotEqs(joint, links, h, unit_angle) ==
    LET pl == Find(links, joint.parent)
        cl == Find(links, joint.child)
    IN  IF pl = 0 \/ cl = 0 THEN Raised("StopIteration")
        ELSE LET ln == Find(links[pl].lines, joint.line_id_parent)
             IN  IF ln = 0 THEN Raised("StopIteration")
                 ELSE LET ids == links[pl].lines[ln].point_ids
                          a == Find(links[pl].points, ids[1])
                          b == Find(links[pl].points, ids[2])
                          pin == Find(links[cl].points, joint.point_id_child)
                      IN  IF a = 0 \/ b = 0 \/ pin = 0 THEN Raised("StopIteration")
                          ELSE LET A == transform_point(links[pl].points[a].position,
                                                        h[links[pl].pose], unit_angle)
                                   B == transform_point(links[pl].points[b].position,
                                                        h[links[pl].pose], unit_angle)
                                   P == transform_point(links[cl].points[pin].position,
                                                        h[links[cl].pose], unit_angle)
                                   AB == <<B[1] - A[1], B[2] - A[2]>>
                                   AP == <<P[1] - A[1], P[2] - A[2]>>
                               IN  Eqs(<<Times(AB[1], AP[2]) - Times(AB[2], AP[1])>>)

WeldEqs(joint, links, h, unit_angle) ==
    LET rel_pos == Get(joint, "relative_pos", <<0, 0>>)
        rel_angle == Get(joint, "relative_angle", 0)
        pl == Find(links, joint.parent)
        cl == Find(links, joint.child)
    IN  IF pl = 0 \/ cl = 0 THEN Raised("StopIteration")
        ELSE LET parent_pose == h[links[pl].pose]
                 child_pose == h[links[cl].pose]
                 weld_world == transform_point(rel_pos, parent_pose, unit_angle)
                 child_origin == transform_point(<<0, 0>>, child_pose, unit_angle)
             IN  Eqs(<<Rounded(weld_world[1] - child_origin[1]),
                       Rounded(weld_world[2] - child_origin[2]),
                       ((child_pose.angle - parent_pose.angle) - rel_angle) * Scale>>)

\* one pass of the body of `for joint in joints`
JointEqs(joint, links, h, unit_angle) ==
    CASE joint.type = "revolute"    -> RevoluteEqs(joint, links, h, unit_angle)
      [] joint.type = "prismatic"   -> PrismaticEqs(joint, links, h, unit_angle)
      [] joint.type = "pin-in-slot" -> PinInSlotEqs(joint, links, h, unit_angle)
      [] joint.type = "weld"        -> WeldEqs(joint, links, h, unit_angle)
      [] OTHER                      -> Eqs(<<>>)

\* the driven constraint, a tuple (child_id, parent_id, target_rel_angle);
\* the target is a number of scale Scale
DrivenEqs(driven, links, h) ==
    IF driven.isNone THEN Eqs(<<>>)
    ELSE LET pl == Find(links, driven.val[2])
             cl == Find(links, driven.val[1])
         IN  IF pl = 0 \/ cl = 0 THEN Raised("StopIteration")
             ELSE Eqs(<<(h[links[cl].pose].angle - h[links[pl].pose].angle) * Scale
                            - driven.val[3]>>)

\* the loop over the joints, then the driven constraint; an exception ends it
RECURSIVE AssembleFrom(_, _, _, _, _, _, _)
AssembleFrom(joints, k, links, h, unit_angle, driven, eqs) ==
    IF k > Len(joints)
    THEN LET d == DrivenEqs(driven, links, h)
         IN  IF d.raised # "" THEN d ELSE Eqs(eqs \o d.eqs)
    ELSE LET j == JointEqs(joints[k], links, h, unit_angle)
         IN  IF j.raised # "" THEN j
             ELSE AssembleFrom(joints, k + 1, links, h, unit_angle, driven, eqs \o j.eqs)

\* constraint_equations(pose_vec, links, joints, grounded_mask, driven) with the
\* heap and the function attribute it reads; returns the heap it leaves, the
\* exception it raised ("" when none) and the residual vector
constraint_equations(pose_vec, links, joints, grounded_mask, driven, h, attr) ==
    LET h1 == set_link_poses_from_vector(h, links, pose_vec, FreeOfMask(grounded_mask, 1))
        unit_angle == IF attr # "unset" THEN attr ELSE "deg"
        r == AssembleFrom(joints, 1, links, h1, unit_angle, driven, <<>>)
    IN  [heap |-> h1, raised |-> r.raised, eqs |-> r.eqs, unit_angle |-> unit_angle]

\* ------------------------------------------------------ documents (inputs)
Point(id, x, y) == [id |-> id, position |-> <<x, y>>]

Pose(x, y, a) == [position |-> <<x, y>>, angle |-> a]

LinkIds == <<"ground", "arm", "rod">>

NLinks == Len(LinkIds)

Points(id) ==
    CASE id = "ground" -> <<Point("G0", 0, 0), Point("G1", 100, 0)>>
      [] id = "arm"    -> <<Point("A0", -50, 0), Point("A1", 50, 0)>>
      [] OTHER         -> <<Point("B0", 0, 0), Point("B1", 0, 80)>>

Directions(id) ==
    CASE id = "ground" -> <<[id |-> "gx", angle |-> 0]>>
      [] id = "arm"    -> <<[id |-> "ax", angle |-> 0]>>
      [] OTHER         -> <<[id |-> "by", angle |-> 90]>>

Lines(id) ==
    CASE id = "ground" -> <<[id |-> "gl", point_ids |-> <<"G0", "G1">>]>>
      [] id = "arm"    -> <<>>
      [] OTHER         -> <<[id |-> "bl", point_ids |-> <<"B0", "B1">>]>>

\* the pose each link has in the document as loaded
DeclaredPose(id) ==
    CASE id = "ground" -> Pose(0, 0, 0)
      [] id = "arm"    -> Pose(20, 10, 0)
      [] OTHER         -> Pose(100, 0, 90)

\* the links of a document; link i holds the pose dict at address i
Links(flags) ==
    [i \in 1..NLinks |->
        [id |-> LinkIds[i], name |-> LinkIds[i], isGrounded |-> flags[i], pose |-> i,
         points |-> Points(LinkIds[i]), directions |-> Directions(LinkIds[i]),
         lines |-> Lines(LinkIds[i])]]

\* copy.deepcopy of a links list: the copy of link i holds a fresh pose dict,
\* at address NLinks + i; an earlier copy is garbage by then and its
\* addresses are reused
CopyLinks(links) == [i \in 1..Len(links) |-> [links[i] EXCEPT !.pose = NLinks + i]]

Addrs == 1..(2 * NLinks)

DeclaredHeap == [a \in Addrs |-> DeclaredPose(LinkIds[((a - 1) % NLinks) + 1])]

Revolute(id, parent, pp, child, cp) ==
    [id |-> id, name |-> id, type |-> "revolute", parent |-> parent, point_id_parent |-> pp,
     child |-> child, point_id_child |-> cp]

JointR1 == Revolute("R1", "ground", "G0", "arm", "A0")

JointR2 == Revolute("R2", "arm", "A1", "rod", "B0")

\* a revolute joint naming a point id its child link does not have
JointRbad == Revolute("R3", "ground", "G1", "rod", "B9")

JointP1 ==
    [id |-> "P1", name |-> "P1", type |-> "prismatic", parent |-> "ground",
     axis_parent |-> [point_id |-> "G0", direction_id |-> "gx"],
     child |-> "rod", axis_child |-> [point_id |-> "B0", direction_id |-> "by"]]

JointS1 ==
    [id |-> "S1", name |-> "S1", type |-> "pin-in-slot", parent |-> "ground", line_id_parent |-> "gl",
     child |-> "arm", point_id_child |-> "A1"]

JointW1 ==
    [id |-> "W1", name |-> "W1", type |-> "weld", parent |-> "ground", child |-> "rod",
     relative_pose |-> Pose(100, 0, 90)]

JointG1 ==
    [id |-> "G1", name |-> "G1", type |-> "gear", parent |-> "ground", child |-> "arm",
     ratio |-> 2, phase_offset |-> 0]

\* a joint of a type the library does not know
JointX1 == [id |-> "X1", name |-> "X1", type |-> "cam", parent |-> "ground",
            child |-> "arm"]

JointPool == {JointR1, JointR2, JointRbad, JointP1, JointS1, JointW1, JointG1}

\* the poses a candidate vector may give a link
CandidatePoses == {<<0, 50, 90>>, <<50, 0, 0>>}

RECURSIVE PoseVectors(_)
PoseVectors(n) ==
    IF n = 0 THEN {<<>>}
    ELSE {p \o v : p \in CandidatePoses, v \in PoseVectors(n - 1)}

\* the poses tried for the free link of a mechanism with one free link
GridPoses == {<<x, y, a>> : x \in {0, 50}, y \in {-50, 0, 50}, a \in {0, 90, 270}}

AsmPoseVectors(n) == IF n = 1 THEN GridPoses ELSE PoseVectors(n)

Drivens == {None, Some(<<"arm", "ground", 90 * Scale>>), Some(<<"rod", "arm", 0>>)}

\* ------------------------------------------------- the assembler, run alone
NoCall == [active |-> FALSE]

NoAnim == [active |-> FALSE]

InitAsm ==
    /\ \E flags \in [1..NLinks -> BOOLEAN], js \in SeqsUpTo(JointPool, MaxJoints) :
          \E u \in {"deg", "rad"} :
             data = [unit_angle |-> u, links |-> Links(flags), joints |-> js]
    /\ heap = DeclaredHeap
    /\ unit_attr \in {"unset", "deg", "rad"}
    /\ prog = "asm"
    /\ pc = "input"
    /\ \E v \in AsmPoseVectors(Len(NonGroundedFrom(data.links, 1))), d \in Drivens :
          arg = [pose_vec |-> v, driven |-> d]
    /\ out = None
    /\ call = NoCall
    /\ pre = heap
    /\ anim = NoAnim
    /\ linkage = None

\* constraint_equations(pose_vec, links, joints, grounded_mask, driven)
AsmAssemble ==
    /\ prog = "asm" /\ pc = "input"
    /\ LET idxs == NonGroundedFrom(data.links, 1)
           r == constraint_equations(arg.pose_vec, data.links, data.joints,
                                     GroundedMask(data.links, idxs), arg.driven,
                                     heap, unit_attr)
       IN  /\ heap' = r.heap
           /\ out' = [raised |-> r.raised, eqs |-> r.eqs, unit_angle |-> r.unit_angle]
    /\ pc' = "assembled"
    /\ UNCHANGED <<data, unit_attr, prog, arg, call, pre, anim, linkage>>

\* pose_vec, non_grounded_indices = get_link_pose_vector(links)
AsmPack ==
    /\ prog = "asm" /\ pc = "input"
    /\ out' = get_link_pose_vector(data.links, heap)
    /\ pc' = "packed"
    /\ UNCHANGED <<data, heap, unit_attr, prog, arg, call, pre, anim, linkage>>

\* set_link_poses_from_vector(links, pose_vec, non_grounded_indices) on what
\* get_link_pose_vector returned
AsmUnpack ==
    /\ prog = "asm" /\ pc = "packed"
    /\ heap' = set_link_poses_from_vector(heap, data.links, out.pose_vec,
                                          out.non_grounded_indices)
    /\ pc' = "unpacked"
    /\ UNCHANGED <<data, unit_attr, prog, arg, out, call, pre, anim, linkage>>

\* set_link_poses_from_vector(links, pose_vec, non_grounded_indices) on a
\* candidate vector
AsmWrite ==
    /\ prog = "asm" /\ pc = "input"
    /\ heap' = set_link_poses_from_vector(heap, data.links, arg.pose_vec,
                                          NonGroundedFrom(data.links, 1))
    /\ pc' = "written"
    /\ UNCHANGED <<data, unit_attr, prog, arg, out, call, pre, anim, linkage>>

NextAsm == AsmAssemble \/ AsmPack \/ AsmUnpack \/ AsmWrite

SpecAsm == InitAsm /\ [][NextAsm]_vars

\* ----------------------------------------------------- the Linkage2D model
\* the constructor call from_json makes for one joint dict and to_dict of the
\* object it builds; "ValueError" for a type from_json does not know.
\* PrismaticJoint.to_dict keeps point_id_child and axis_child when they are
\* not None (a missing key and a JSON null both give None: the string "None"
\* for an id, the record None for a dict) and limits when it is truthy,
\* neither None nor an empty dict.
JointObjectDict(joint) ==
    LET t == Get(joint, "type", "None")
        base == [id |-> joint.id, name |-> joint.name, type |-> t,
                 parent |-> joint.parent, child |-> joint.child]
    IN  CASE t = "revolute" ->
               Eqs(base @@ [point_id_parent |-> joint.point_id_parent,
                            point_id_child |-> joint.point_id_child])
          [] t = "prismatic" ->
               Eqs(base @@ [axis_parent |-> joint.axis_parent]
                        @@ (IF Get(joint, "point_id_child", "None") # "None"
                            THEN [point_id_child |-> joint.point_id_child] ELSE <<>>)
                        @@ (IF Get(joint, "axis_child", None) # None
                            THEN [axis_child |-> joint.axis_child] ELSE <<>>)
                        @@ (IF /\ Get(joint, "limits", None) # None
                               /\ DOMAIN Get(joint, "limits", None) # {}
                            THEN [limits |-> joint.limits] ELSE <<>>))
          [] t = "pin-in-slot" ->
               Eqs(base @@ [line_id_parent |-> joint.line_id_parent,
                            point_id_child |-> joint.point_id_child])
          [] t = "gear" ->
               Eqs(base @@ [ratio |-> joint.ratio,
                            phase_offset |-> Get(joint, "phase_offset", 0)])
          [] t = "weld" ->
               Eqs(base @@ [relative_pose |-> joint.relative_pose])
          [] OTHER -> Raised("ValueError")

\* Linkage2D.from_json(data): Link2D(**link) keeps the document's pose dict, so
\* link i of the model holds the address link i of the document holds.  The
\* joints are kept as the dicts Joint.to_dict gives for them.
from_json(d) ==
    LET js == [k \in 1..Len(d.joints) |-> JointObjectDict(d.joints[k])]
    IN  IF \E k \in 1..Len(js) : js[k].raised # ""
        THEN [raised |-> "ValueError"]
        ELSE [raised |-> "", unit_angle |-> d.unit_angle, links |-> d.links,
              joints |-> [k \in 1..Len(js) |-> js[k].eqs]]

\* ------------------------------------------------------------- the solver
\* a variant that starts from the links' poses whatever guess it is given
StartSolveNoGuess(path, links, joints, unit_angle, driven, initial_pose, h) ==
    LET pv == get_link_pose_vector(links, h)
    IN  [active |-> TRUE, path |-> path, links |-> links, joints |-> joints,
         unit_angle |-> unit_angle, driven |-> driven,
         non_grounded_indices |-> pv.non_grounded_indices,
         x0 |-> pv.pose_vec, nfev |-> 0, x |-> pv.pose_vec, zero |-> FALSE]

\* the state of a solve from its call to the first call of fun by
\* least_squares: solver.solve_linkage lines 158-168 on a data dict, and
\* Linkage2D.solve_linkage lines 157-187 on [l.to_dict() for l in self.links],
\* whose dicts hold the poses of the Link2D objects themselves
StartSolve(path, links, joints, unit_angle, driven, initial_pose, h) ==
    LET pv == get_link_pose_vector(links, h)
        pose_vec == IF initial_pose.isNone THEN pv.pose_vec ELSE initial_pose.val
    IN  [active |-> TRUE, path |-> path, links |-> links, joints |-> joints,
         unit_angle |-> unit_angle, driven |-> driven,
         non_grounded_indices |-> pv.non_grounded_indices,
         x0 |-> pose_vec, nfev |-> 0, x |-> pose_vec, zero |-> FALSE]

\* fun(x), the residual callback of both solve_linkage: what it leaves in the
\* heap and in the function attribute, and what it returns or raises
fun(x, c, h) ==
    LET h1 == set_link_poses_from_vector(h, c.links, x, c.non_grounded_indices)
        attr == c.unit_angle
        r == constraint_equations(x, c.links, c.joints,
                                  GroundedMask(c.links, c.non_grounded_indices),
                                  c.driven, h1, attr)
    IN  [heap |-> r.heap, unit_attr |-> attr, raised |-> r.raised, eqs |-> r.eqs]

AllZero(eqs) == \A k \in 1..Len(eqs) : eqs[k] = 0

\* what the caller gets back: solver.solve_linkage returns (data, res.x) for
\* a dict; for a file name it dumps data, whose links hold res.x, to the file
\* 'solved_' + json_file and returns data alone; Linkage2D.solve_linkage
\* returns res
ReturnValue(path, res) ==
    IF path = "dict" THEN [raised |-> "", x |-> res.x]
    ELSE IF path = "file" THEN [raised |-> "", solved_file |-> res.x]
    ELSE [raised |-> "", x |-> res.x, success |-> res.success]

\* least_squares calls fun: first at x0, then at the points its iteration
\* tries, of which it keeps some as the new iterate.  An exception raised by
\* fun ends the solve and reaches the caller.
Fun ==
    /\ pc = "iterating"
    /\ call.nfev < 1 + MaxEvals
    /\ \E x \in (IF call.nfev = 0 THEN {call.x0}
                 ELSE PoseVectors(Len(call.non_grounded_indices))),
          keep \in BOOLEAN :
          \E r \in {fun(x, call, heap)} :
          LET taken == keep \/ call.nfev = 0
          IN  /\ heap' = r.heap
              /\ unit_attr' = r.unit_attr
              /\ IF r.raised # ""
                 THEN /\ pc' = "raised"
                      /\ out' = [raised |-> r.raised]
                      /\ call' = [call EXCEPT !.active = FALSE]
                 ELSE /\ pc' = pc
                      /\ out' = out
                      /\ call' = [call EXCEPT !.nfev = @ + 1,
                                              !.x = IF taken THEN x ELSE @,
                                              !.zero = IF taken THEN AllZero(r.eqs) ELSE @]
    /\ UNCHANGED <<data, prog, arg, pre, anim, linkage>>

\* least_squares returns res (res.x the last iterate it kept; it has converged
\* when the residuals there are zero, and otherwise it may have converged to
\* a minimum or used up its evaluations), and solve_linkage writes res.x to
\* the links and returns
Finish ==
    /\ pc = "iterating"
    /\ call.nfev >= 1
    /\ \E success \in (IF call.zero THEN {TRUE} ELSE BOOLEAN) :
          LET res == [x |-> call.x, success |-> success]
          IN  /\ heap' = set_link_poses_from_vector(heap, call.links, res.x,
                                                    call.non_grounded_indices)
              /\ out' = ReturnValue(call.path, res)
              /\ call' = [call EXCEPT !.active = FALSE] @@ [res |-> res]
    /\ linkage' = IF call.path = "oop"
                  THEN [linkage EXCEPT !.links =
                           [i \in 1..Len(@) |-> [@[i] EXCEPT !.pose = call.links[i].pose]]]
                  ELSE linkage
    /\ pc' = "returned"
    /\ UNCHANGED <<data, unit_attr, prog, arg, pre, anim>>

\* ------------------------------------------------- the programs that solve
SolveFlags == {<<TRUE, FALSE, FALSE>>, <<TRUE, FALSE, TRUE>>, <<FALSE, TRUE, FALSE>>}

SolveJoints == {<<JointR1>>, <<JointR1, JointR2>>, <<JointR1, JointRbad>>,
                <<JointS1, JointW1>>, <<JointR1, JointX1>>}

AnimJoints == {<<JointR1>>, <<JointR2, JointR1>>, <<JointR2>>, <<JointS1>>}

InitialPoses(links) ==
    {None} \cup {Some(v) : v \in PoseVectors(Len(NonGroundedFrom(links, 1)))}

Init ==
    /\ prog \in {"solve", "solvefile", "solve2d", "animate", "animate2d"}
    /\ \E flags \in SolveFlags, u \in {"deg", "rad"},
          js \in (IF prog \in {"solve", "solvefile", "solve2d"} THEN SolveJoints
                  ELSE AnimJoints) :
          /\ prog \in {"animate", "animate2d"} => flags = <<TRUE, FALSE, FALSE>>
          /\ data = [unit_angle |-> u, links |-> Links(flags), joints |-> js]
    /\ heap = DeclaredHeap
    /\ unit_attr = "unset"
    /\ pc = "idle"
    /\ arg = [ncalls |-> 0]
    /\ out = None
    /\ call = NoCall
    /\ pre = heap
    /\ anim = IF prog \in {"animate", "animate2d"} THEN [active |-> TRUE, phase |-> "start"]
              ELSE NoAnim
    /\ linkage = None

\* whether every call made so far, this one included, passes the same driving
\* constraint and no initial guess
SameCallAgain(a, driven, initial_pose) ==
    /\ initial_pose.isNone
    /\ a.ncalls > 0 => (a.repeated /\ a.driven = driven)

\* solve_linkage(data, driven, initial_pose) of solver.py, up to least_squares
CallSolve ==
    /\ prog = "solve"
    /\ pc \in {"idle", "returned", "raised"}
    /\ arg.ncalls < MaxCalls
    /\ \E driven \in Drivens, initial_pose \in InitialPoses(data.links) :
          /\ call' = StartSolve("dict", data.links, data.joints, data.unit_angle,
                                driven, initial_pose, heap)
          /\ arg' = [ncalls |-> arg.ncalls + 1, driven |-> driven,
                     initial_pose |-> initial_pose,
                     repeated |-> SameCallAgain(arg, driven, initial_pose)]
    /\ pre' = heap
    /\ out' = None
    /\ pc' = "iterating"
    /\ UNCHANGED <<data, heap, unit_attr, prog, anim, linkage>>

\* copy.deepcopy(data), or json.load of the file data was loaded from: the
\* heap with the poses of the copy in place
DeepCopyHeap(h, links) ==
    [a \in Addrs |-> IF a > NLinks /\ a - NLinks <= Len(links) THEN h[links[a - NLinks].pose]
                     ELSE h[a]]

\* solve_linkage(json_file, driven) of solver.py, up to least_squares, as
\* solve_and_plot calls it: data is what json.load gives for the file, fresh
\* dicts with the poses of the document
CallSolveFile ==
    /\ prog = "solvefile"
    /\ pc \in {"idle", "returned", "raised"}
    /\ arg.ncalls < MaxCalls
    /\ \E driven \in Drivens, h \in {DeepCopyHeap(heap, data.links)} :
          /\ call' = StartSolve("file", CopyLinks(data.links), data.joints,
                                data.unit_angle, driven, None, h)
          /\ arg' = [ncalls |-> arg.ncalls + 1, driven |-> driven,
                     initial_pose |-> None,
                     repeated |-> SameCallAgain(arg, driven, None)]
          /\ heap' = h
          /\ pre' = h
    /\ out' = None
    /\ pc' = "iterating"
    /\ UNCHANGED <<data, unit_attr, prog, anim, linkage>>

\* linkage = Linkage2D.from_json(data)
Load2D ==
    /\ prog = "solve2d"
    /\ pc = "idle"
    /\ linkage = None
    /\ LET m == from_json(data)
       IN  IF m.raised # ""
           THEN /\ pc' = "raised"
                /\ out' = [raised |-> m.raised]
                /\ linkage' = linkage
           ELSE /\ pc' = pc
                /\ out' = out
                /\ linkage' = m
    /\ UNCHANGED <<data, heap, unit_attr, prog, arg, call, pre, anim>>

\* linkage.solve_linkage(driven, initial_pose), up to least_squares
CallSolve2D ==
    /\ prog = "solve2d"
    /\ linkage # None
    /\ pc \in {"idle", "returned", "raised"}
    /\ arg.ncalls < MaxCalls
    /\ \E driven \in Drivens, initial_pose \in InitialPoses(linkage.links) :
          /\ call' = StartSolve("oop", linkage.links, linkage.joints, linkage.unit_angle,
                                driven, initial_pose, heap)
          /\ arg' = [ncalls |-> arg.ncalls + 1, driven |-> driven,
                     initial_pose |-> initial_pose,
                     repeated |-> SameCallAgain(arg, driven, initial_pose)]
    /\ pre' = heap
    /\ out' = None
    /\ pc' = "iterating"
    /\ UNCHANGED <<data, heap, unit_attr, prog, anim, linkage>>

\* ------------------------------------------------------ animation drivers
\* angles = np.linspace(0, 360 if unit_angle == 'deg' else 2*np.pi, n_frames),
\* with n_frames = NFrames, as numbers of scale Scale
TwoPi == 62832

angles(i, unit_angle) ==
    ((IF unit_angle = "deg" THEN 360 * Scale ELSE TwoPi) * i) \div (NFrames - 1)

\* animate(json_file) up to the bounding-box loop
AnimateStart ==
    /\ prog = "animate" /\ anim.phase = "start"
    /\ LET r1 == Find(data.joints, "R1")
       IN  IF r1 = 0 \/ Find(data.links, data.joints[r1].parent) = 0
           THEN /\ pc' = "raised"
                /\ out' = [raised |-> "StopIteration"]
                /\ anim' = [anim EXCEPT !.phase = "aborted"]
           ELSE /\ pc' = pc
                /\ out' = out
                /\ anim' = [active |-> TRUE, phase |-> "bbox", i |-> 0,
                            child_id |-> data.joints[r1].child,
                            parent_id |-> data.joints[r1].parent,
                            pose_guess |-> None, solved |-> None,
                            init_draw |-> FALSE, rounds |-> 0]
    /\ UNCHANGED <<data, heap, unit_attr, prog, arg, call, pre, linkage>>

\* one pass of the bounding-box loop of animate, up to least_squares:
\* data_frame = deepcopy(data); solve_linkage(data_frame, driven, None)
AnimateBBoxSolve ==
    /\ prog = "animate" /\ anim.phase = "bbox"
    /\ pc \in {"idle", "returned"}
    /\ anim.i < NFrames
    /\ \E h \in {DeepCopyHeap(heap, data.links)} :
          LET driven == Some(<<anim.child_id, anim.parent_id,
                               angles(anim.i, data.unit_angle)>>)
          IN  /\ call' = StartSolve("dict", CopyLinks(data.links), data.joints,
                                    data.unit_angle, driven, None, h)
              /\ heap' = h
              /\ pre' = h
    /\ anim' = [anim EXCEPT !.i = @ + 1]
    /\ out' = None
    /\ pc' = "iterating"
    /\ UNCHANGED <<data, unit_attr, prog, arg, linkage>>

\* the end of the bounding-box loop of either driver: the limits are taken
\* and FuncAnimation(fig, animate_frame, frames=n_frames, repeat=True) starts.
\* It has no init_func, so it first draws frame 0 once (init_draw) and then
\* steps through the frames 0 .. n_frames-1.
BBoxDone ==
    /\ prog \in {"animate", "animate2d"} /\ anim.phase = "bbox"
    /\ pc \in {"idle", "returned"}
    /\ anim.i = NFrames
    /\ anim' = [anim EXCEPT !.phase = "frames", !.i = 0, !.init_draw = TRUE]
    /\ pc' = "idle"
    /\ UNCHANGED <<data, heap, unit_attr, prog, arg, out, call, pre, linkage>>

\* repeat=True: when the frames are exhausted the animation starts again,
\* with the drawing of frame 0 and then the frames in order; pose_guess is
\* what the last frame left.  It repeats for as long as the window is open.
AnimationRepeat ==
    /\ prog \in {"animate", "animate2d"} /\ anim.phase = "frames"
    /\ pc = "idle"
    /\ anim.i = NFrames
    /\ anim.rounds < MaxRepeats
    /\ anim' = [anim EXCEPT !.i = 0, !.init_draw = TRUE, !.rounds = @ + 1]
    /\ UNCHANGED <<data, heap, unit_attr, prog, pc, arg, out, call, pre, linkage>>

\* animate.animate_frame(i), up to least_squares
AnimateFrameSolve ==
    /\ prog = "animate" /\ anim.phase = "frames"
    /\ pc = "idle"
    /\ anim.i < NFrames
    /\ \E h \in {DeepCopyHeap(heap, data.links)} :
          LET driven == Some(<<anim.child_id, anim.parent_id,
                               angles(anim.i, data.unit_angle)>>)
          IN  /\ call' = StartSolve("dict", CopyLinks(data.links), data.joints,
                                    data.unit_angle, driven, anim.pose_guess, h)
              /\ heap' = h
              /\ pre' = h
    /\ out' = None
    /\ pc' = "iterating"
    /\ UNCHANGED <<data, unit_attr, prog, arg, anim, linkage>>

\* animate.animate_frame(i), from the return of solve_linkage:
\* pose_guess[0] = pose
AnimateFrameEnd ==
    /\ prog = "animate" /\ anim.phase = "frames"
    /\ pc = "returned"
    /\ anim' = [anim EXCEPT !.pose_guess = Some(out.x),
                            !.solved = Some(call.res.x),
                            !.i = IF anim.init_draw THEN @ ELSE @ + 1,
                            !.init_draw = FALSE]
    /\ pc' = "idle"
    /\ UNCHANGED <<data, heap, unit_attr, prog, arg, out, call, pre, linkage>>

\* a variant that takes the first revolute joint whatever its id
RECURSIVE CrankFirstRevolute(_, _, _)
CrankFirstRevolute(joints, k, crank_joint) ==
    IF k > Len(joints) THEN crank_joint
    ELSE IF joints[k].type = "revolute" THEN k
         ELSE CrankFirstRevolute(joints, k + 1, crank_joint)

\* the crank of animate_linkage2d: the revolute joint with id 'R1', or else
\* the first revolute joint; 0 when there is none
RECURSIVE CrankFrom(_, _, _)
CrankFrom(joints, k, crank_joint) ==
    IF k > Len(joints) THEN crank_joint
    ELSE IF joints[k].type = "revolute" /\ (joints[k].id = "R1" \/ crank_joint = 0)
         THEN (IF joints[k].id = "R1" THEN k ELSE CrankFrom(joints, k + 1, k))
         ELSE CrankFrom(joints, k + 1, crank_joint)

\* animate_linkage2d(json_file) up to the bounding-box loop; temp_linkage is a
\* second Linkage2D.from_json(data), whose links hold the same pose dicts
Animate2DStart ==
    /\ prog = "animate2d" /\ anim.phase = "start"
    /\ LET m == from_json(data)
           crank == IF m.raised = "" THEN CrankFrom(m.joints, 1, 0) ELSE 0
           err == IF m.raised # "" THEN m.raised
                  ELSE IF crank = 0 THEN "ValueError"
                  ELSE IF Find(m.links, m.joints[crank].parent) = 0 THEN "StopIteration"
                  ELSE ""
       IN  IF err # ""
           THEN /\ pc' = "raised"
                /\ out' = [raised |-> err]
                /\ anim' = [anim EXCEPT !.phase = "aborted"]
                /\ linkage' = IF m.raised = "" THEN m ELSE linkage
           ELSE /\ pc' = pc
                /\ out' = out
                /\ linkage' = m
                /\ anim' = [active |-> TRUE, phase |-> "bbox", i |-> 0,
                            crank_joint |-> m.joints[crank],
                            child_id |-> m.joints[crank].child,
                            parent_id |-> m.joints[crank].parent,
                            pose_guess |-> None, solved |-> None,
                            init_draw |-> FALSE, rounds |-> 0,
                            temp_linkage |-> m]
    /\ UNCHANGED <<data, heap, unit_attr, prog, arg, call, pre>>

\* one pass of the bounding-box loop of animate_linkage2d, up to
\* least_squares: temp_linkage.solve_linkage(driven, initial_pose=None)
Animate2DBBoxSolve ==
    /\ prog = "animate2d" /\ anim.phase = "bbox"
    /\ pc \in {"idle", "returned"}
    /\ anim.i < NFrames
    /\ LET driven == Some(<<anim.child_id, anim.parent_id,
                            angles(anim.i, linkage.unit_angle)>>)
           t == anim.temp_linkage
       IN  call' = StartSolve("oop", t.links, t.joints, t.unit_angle, driven, None, heap)
    /\ pre' = heap
    /\ anim' = [anim EXCEPT !.i = @ + 1]
    /\ out' = None
    /\ pc' = "iterating"
    /\ UNCHANGED <<data, heap, unit_attr, prog, arg, linkage>>

\* animate_linkage2d.animate_frame(i), up to least_squares:
\* linkage.solve_linkage(driven, initial_pose=pose_guess)
Animate2DFrameSolve ==
    /\ prog = "animate2d" /\ anim.phase = "frames"
    /\ pc = "idle"
    /\ anim.i < NFrames
    /\ LET driven == Some(<<anim.child_id, anim.parent_id,
                            angles(anim.i, linkage.unit_angle)>>)
       IN  call' = StartSolve("oop", linkage.links, linkage.joints, linkage.unit_angle,
                              driven, anim.pose_guess, heap)
    /\ pre' = heap
    /\ out' = None
    /\ pc' = "iterating"
    /\ UNCHANGED <<data, heap, unit_attr, prog, arg, anim, linkage>>

\* animate_linkage2d.animate_frame(i), from the return of solve_linkage:
\* pose_guess is read back from the non-grounded links of the model
Animate2DFrameEnd ==
    /\ prog = "animate2d" /\ anim.phase = "frames"
    /\ pc = "returned"
    /\ anim' = [anim EXCEPT
                   !.pose_guess = Some(PoseVecOf(linkage.links, heap,
                                                 NonGroundedFrom(linkage.links, 1))),
                   !.solved = Some(call.res.x),
                   !.i = IF anim.init_draw THEN @ ELSE @ + 1,
                   !.init_draw = FALSE]
    /\ pc' = "idle"
    /\ UNCHANGED <<data, heap, unit_attr, prog, arg, out, call, pre, linkage>>

\* --------------------------- animate_linkage2d on any list of known joints
MaxCrankJoints == 3

\* a joint that has the id 'R1' and is not revolute
JointSR1 == [JointS1 EXCEPT !.id = "R1"]

CrankPool == {JointR1, JointR2, JointRbad, JointS1, JointSR1}

InitCrank ==
    /\ prog = "animate2d"
    /\ \E u \in {"deg", "rad"}, js \in SeqsUpTo(CrankPool, MaxCrankJoints) :
          data = [unit_angle |-> u, links |-> Links(<<TRUE, FALSE, FALSE>>), joints |-> js]
    /\ heap = DeclaredHeap
    /\ unit_attr = "unset"
    /\ pc = "idle"
    /\ arg = [ncalls |-> 0]
    /\ out = None
    /\ call = NoCall
    /\ pre = heap
    /\ anim = [active |-> TRUE, phase |-> "start"]
    /\ linkage = None

NextCrank == Animate2DStart \/ Animate2DBBoxSolve

SpecCrank == InitCrank /\ [][NextCrank]_vars

\* ------------------------------------------------- claims on the assembler
\* the poses of the links of a links list, in list order
PosesOf(links, h) == [i \in 1..Len(links) |-> h[links[i].pose]]

\* the non-grounded links of the document and the rank of each among them
FreeLinks == {i \in 1..Len(data.links) : ~data.links[i].isGrounded}

RankOf(i) == Cardinality({j \in FreeLinks : j < i})

\* C1: after constraint_equations has been evaluated for a candidate pose
\* vector, every link of the links list it was given has the pose it had
\* before the call.
C1_AssemblerLeavesPoses ==
    (prog = "asm" /\ pc = "assembled") => PosesOf(data.links, heap) = PosesOf(data.links, pre)

\* C6: get_link_pose_vector returns the [x, y, angle] of exactly the
\* non-grounded links, in declaration order; set_link_poses_from_vector
\* writes the k-th triple to the k-th non-grounded link and nothing else;
\* packing and then unpacking leaves every pose unchanged.
C6_PackingConvention ==
    /\ (prog = "asm" /\ pc = "packed") =>
          /\ Len(out.pose_vec) = 3 * Cardinality(FreeLinks)
          /\ Range(out.non_grounded_indices) = FreeLinks
          /\ \A i \in FreeLinks :
                LET k == RankOf(i)
                    p == heap[data.links[i].pose]
                IN  /\ out.non_grounded_indices[k + 1] = i
                    /\ SubSeq(out.pose_vec, 3 * k + 1, 3 * k + 3)
                          = <<p.position[1], p.position[2], p.angle>>
    /\ (prog = "asm" /\ pc = "written") =>
          \A i \in 1..Len(data.links) :
             LET k == RankOf(i)
                 p == heap[data.links[i].pose]
             IN  IF i \in FreeLinks
                 THEN <<p.position[1], p.position[2], p.angle>>
                         = SubSeq(arg.pose_vec, 3 * k + 1, 3 * k + 3)
                 ELSE p = pre[data.links[i].pose]
    /\ (prog = "asm" /\ pc = "unpacked") =>
          PosesOf(data.links, heap) = PosesOf(data.links, pre)

\* a grounded link stands between two non-grounded ones and the vector was
\* packed and unpacked again
C6_Witness ==
    /\ prog = "asm" /\ pc = "unpacked"
    /\ ~data.links[1].isGrounded /\ data.links[2].isGrounded /\ ~data.links[3].isGrounded
    /\ Len(out.pose_vec) = 6

\* the group sizes the claim gives
ClaimedSize(type) ==
    CASE type = "revolute"    -> 2
      [] type = "prismatic"   -> 2
      [] type = "pin-in-slot" -> 1
      [] type = "weld"        -> 3

ClaimedTypes == {"revolute", "prismatic", "pin-in-slot", "weld"}

RECURSIVE ClaimedOffset(_, _)
ClaimedOffset(joints, k) ==
    IF k = 1 THEN 0 ELSE ClaimedOffset(joints, k - 1) + ClaimedSize(joints[k - 1].type)

\* C8: the residual vector is the joints' groups in declaration order (2 for
\* a revolute, 2 for a prismatic, 1 for a pin-in-slot, 3 for a weld), then
\* the driving residual as the last entry when a driving constraint is given;
\* the length and the place of each group depend on the joint list alone.
C8_ResidualLayout ==
    (/\ prog = "asm" /\ pc = "assembled" /\ out.raised = ""
     /\ \A k \in 1..Len(data.joints) : data.joints[k].type \in ClaimedTypes) =>
        LET n == Len(data.joints)
            joints_len == ClaimedOffset(data.joints, n + 1)
        IN  /\ Len(out.eqs) = joints_len + (IF arg.driven.isNone THEN 0 ELSE 1)
            /\ \A k \in 1..n :
                  LET off == ClaimedOffset(data.joints, k)
                      size == ClaimedSize(data.joints[k].type)
                  IN  SubSeq(out.eqs, off + 1, off + size)
                         = JointEqs(data.joints[k], data.links, heap, out.unit_angle).eqs
            /\ ~arg.driven.isNone =>
                  out.eqs[Len(out.eqs)]
                     = DrivenEqs(arg.driven, data.links, heap).eqs[1]

\* a pin-in-slot group stands before a weld group, with a driving residual
C8_Witness ==
    /\ prog = "asm" /\ pc = "assembled" /\ out.raised = ""
    /\ Len(data.joints) = 2
    /\ data.joints[1].type = "pin-in-slot" /\ data.joints[2].type = "weld"
    /\ ~arg.driven.isNone
    /\ Len(out.eqs) = 5

\* the pose of a child welded to a parent at the relative pose rel: the
\* parent's pose composed with rel
AtComposedPose(child_pose, parent_pose, rel, unit_angle) ==
    LET composed == transform_point(rel.position, parent_pose, unit_angle)
    IN  /\ child_pose.position[1] * Fix = composed[1]
        /\ child_pose.position[2] * Fix = composed[2]
        /\ child_pose.angle = parent_pose.angle + rel.angle

\* C13: for a weld joint declared with a relative_pose, the three weld
\* residuals are all zero whenever the child's pose is the parent's pose
\* composed with that relative pose, a non-zero relative pose included.
C13_WeldZeroAtRelativePose ==
    (/\ prog = "asm" /\ pc = "assembled" /\ out.raised = ""
     /\ \A k \in 1..Len(data.joints) : data.joints[k].type \in ClaimedTypes) =>
        \A k \in 1..Len(data.joints) :
           LET joint == data.joints[k]
               off == ClaimedOffset(data.joints, k)
               pl == Find(data.links, joint.parent)
               cl == Find(data.links, joint.child)
           IN  (/\ joint.type = "weld" /\ "relative_pose" \in DOMAIN joint
                /\ AtComposedPose(heap[data.links[cl].pose], heap[data.links[pl].pose],
                                  joint.relative_pose, out.unit_angle))
                  => SubSeq(out.eqs, off + 1, off + 3) = <<0, 0, 0>>

\* the mechanism of the worked example: ground grounded at the origin with
\* angle 0, arm free, one revolute joint between point (0,0) of ground and
\* point (-50,0) of arm, unit 'deg', driving constraint (arm, ground, 90);
\* the third link is grounded and has no joint
C14_Scenario ==
    /\ prog = "asm" /\ pc = "assembled" /\ out.raised = ""
    /\ out.unit_angle = "deg"
    /\ data.links[1].isGrounded /\ ~data.links[2].isGrounded /\ data.links[3].isGrounded
    /\ data.joints = <<JointR1>>
    /\ arg.driven = Some(<<"arm", "ground", 90 * Scale>>)

\* C14 as stated: in the worked example the residual vector is all zero at
\* the arm pose position (0,-50), angle 90, and at no other arm pose.
C14_ResidualZeroAtStatedPose ==
    C14_Scenario => (AllZero(out.eqs) <=> heap[data.links[2].pose] = Pose(0, -50, 90))

\* C14, amended: in the worked example the residual vector is all zero at
\* the arm pose position (0,50), angle 90, and at no other arm pose.
C14_ResidualZeroOnlyAtSolvedPose ==
    C14_Scenario => (AllZero(out.eqs) <=> heap[data.links[2].pose] = Pose(0, 50, 90))

\* the worked example assembled at the arm pose (0,50), angle 90
C14_Witness ==
    /\ C14_Scenario
    /\ heap[data.links[2].pose] = Pose(0, 50, 90)
    /\ out.eqs = <<0, 0, 0>>

\* the group sizes with the one scalar constraint the claim gives a gear
SizeWithGear(type) == IF type = "gear" THEN 1 ELSE ClaimedSize(type)

RECURSIVE LengthWithGears(_, _)
LengthWithGears(joints, k) ==
    IF k = 0 THEN 0 ELSE LengthWithGears(joints, k - 1) + SizeWithGear(joints[k].type)

\* C15: a gear joint contributes one scalar constraint to the residual
\* vector, so that a mechanism's residual vector has one entry for each of
\* its gear joints besides the groups of its other joints and the driving
\* residual.
C15_GearContributesOneEquation ==
    (/\ prog = "asm" /\ pc = "assembled" /\ out.raised = ""
     /\ \A k \in 1..Len(data.joints) : data.joints[k].type \in ClaimedTypes \cup {"gear"}) =>
        Len(out.eqs) = LengthWithGears(data.joints, Len(data.joints))
                          + (IF arg.driven.isNone THEN 0 ELSE 1)

\* --------------------------------------------------- claims on the solver
\* a solve has been called (and may have ended since)
Called == call # NoCall

\* the poses of the links of the mechanism the solve was called on
MechanismPoses(h) == PosesOf(call.links, h)

\* C2: after a solve whose minimizer did not converge, every link of the
\* mechanism has the pose it had when the solve was called.
C2_CommitOnlyOnConvergence ==
    (pc = "returned" /\ ~call.res.success) => MechanismPoses(heap) = MechanismPoses(pre)

\* C3: a solve whose minimizer used up its budget without converging reports
\* a failure; it does not return through the result path of a successful
\* solve.
C3_DivergenceReported ==
    (pc = "returned" /\ call.path = "dict") => call.res.success

\* a joint of the mechanism names a point id its link does not have
DanglingPoint(joints, links) ==
    \E k \in 1..Len(joints) :
       /\ joints[k].type = "revolute"
       /\ \/ /\ Find(links, joints[k].parent) # 0
             /\ Find(links[Find(links, joints[k].parent)].points,
                     joints[k].point_id_parent) = 0
          \/ /\ Find(links, joints[k].child) # 0
             /\ Find(links[Find(links, joints[k].child)].points,
                     joints[k].point_id_child) = 0

\* C4: a solve of a mechanism with a joint that names an absent point id ends
\* in a ModelReferenceError, and every link then has the pose it had when the
\* solve was called.
C4_DanglingPointSurfaces ==
    (/\ Called /\ pc \in {"returned", "raised"}
     /\ DanglingPoint(call.joints, call.links)) =>
        /\ out.raised = "ModelReferenceError"
        /\ MechanismPoses(heap) = MechanismPoses(pre)

\* C5: while a solve iterates, at every residual evaluation, the links of the
\* mechanism have the poses they had when the solve was called.
C5_IterationOnWorkingCopy ==
    (Called /\ pc = "iterating") => MechanismPoses(heap) = MechanismPoses(pre)

\* C7: during a solve and after it, every grounded link of the mechanism has
\* the pose it had when the solve was called.
C7_GroundedPosesFixed ==
    Called =>
        \A i \in 1..Len(call.links) :
           call.links[i].isGrounded => heap[call.links[i].pose] = pre[call.links[i].pose]

\* a solve has returned after several residual evaluations, the mechanism has
\* a grounded link and the pose of a non-grounded link has changed
C7_Witness ==
    /\ Called /\ pc = "returned" /\ call.nfev > 1
    /\ \E i \in 1..Len(call.links) : call.links[i].isGrounded
    /\ \E i \in 1..Len(call.links) :
          /\ ~call.links[i].isGrounded
          /\ heap[call.links[i].pose] # pre[call.links[i].pose]

\* ------------------------------------------ claims on the animation drivers
InFrame(i) ==
    /\ prog \in {"animate", "animate2d"}
    /\ anim.phase = "frames" /\ pc = "iterating"
    /\ anim.i = i

\* the flat pose vector of the document as loaded
DeclaredPoseVector == PoseVecOf(data.links, DeclaredHeap, NonGroundedFrom(data.links, 1))

\* C9: the solve for every target after the first starts from the flat pose
\* vector the solve for the previous target returned.
C9_PreviousSolutionIsGuess ==
    \A i \in 1..(NFrames - 1) :
       InFrame(i) => (~anim.solved.isNone /\ call.x0 = anim.solved.val)

\* animate_linkage2d solves a later target from a previous solution that is
\* not the declared pose vector
C9_Witness ==
    /\ prog = "animate2d" /\ InFrame(1)
    /\ call.x0 # DeclaredPoseVector
    /\ call.nfev >= 1

\* C10: in both drivers the solve for the first target starts from the poses
\* the document declares for the non-grounded links.
C10_FirstSeedIsDeclared ==
    InFrame(0) => call.x0 = DeclaredPoseVector

\* ------------------------------------- two solves running at the same time
\* Two threads, each solving a mechanism of its own: thread 1 calls
\* solver.solve_linkage on the first document, thread 2 calls solve_linkage of
\* the Linkage2D model built from the second.  The two documents share no link
\* or pose; the function attribute constraint_equations.unit_angle is the one
\* object both threads use.  A thread can be suspended between any two
\* statements, so fun is taken in two steps: the statements before the call
\* of constraint_equations, and the call.
Threads == {1, 2}

ConcFlags == {<<TRUE, FALSE, TRUE>>, <<TRUE, TRUE, FALSE>>}

InitConc ==
    /\ prog = "threads"
    /\ \E f1 \in ConcFlags, f2 \in ConcFlags :
          data = <<[unit_angle |-> "deg", links |-> Links(f1), joints |-> <<JointR1>>],
                   [unit_angle |-> "rad", links |-> CopyLinks(Links(f2)),
                    joints |-> <<JointR1>>]>>
    /\ heap = DeclaredHeap
    /\ unit_attr = "unset"
    /\ pc = "running"
    /\ arg = [t \in Threads |-> None]
    /\ out = [t \in Threads |-> None]
    /\ call = [t \in Threads |-> [active |-> FALSE, at |-> "idle"]]
    /\ pre = heap
    /\ anim = NoAnim
    /\ linkage = from_json(data[2])

\* thread t calls its solve_linkage, which runs up to least_squares
ConcCall(t) ==
    /\ prog = "threads"
    /\ call[t].at = "idle"
    /\ \E driven \in {None, Some(<<"arm", "ground", 90 * Scale>>)} :
          LET c == IF t = 1
                   THEN StartSolve("dict", data[1].links, data[1].joints,
                                   data[1].unit_angle, driven, None, heap)
                   ELSE StartSolve("oop", linkage.links, linkage.joints,
                                   linkage.unit_angle, driven, None, heap)
          IN  /\ call' = [call EXCEPT ![t] = c @@ [at |-> "fun", cur |-> c.x0,
                                                   keep |-> TRUE, used |-> "none"]]
              /\ arg' = [arg EXCEPT ![t] = [driven |-> driven, initial_pose |-> None]]
    /\ UNCHANGED <<data, heap, unit_attr, prog, pc, out, pre, anim, linkage>>

\* least_squares of thread t calls fun(x), which writes x to the links and
\* the mechanism's unit to the function attribute
ConcFunEnter(t) ==
    /\ prog = "threads"
    /\ call[t].at = "fun"
    /\ call[t].nfev < 1 + MaxEvals
    /\ \E x \in (IF call[t].nfev = 0 THEN {call[t].x0}
                 ELSE PoseVectors(Len(call[t].non_grounded_indices))),
          keep \in BOOLEAN :
          /\ heap' = set_link_poses_from_vector(heap, call[t].links, x,
                                                call[t].non_grounded_indices)
          /\ call' = [call EXCEPT ![t].at = "assemble", ![t].cur = x,
                                  ![t].keep = keep \/ call[t].nfev = 0]
    /\ unit_attr' = call[t].unit_angle
    /\ UNCHANGED <<data, prog, pc, arg, out, pre, anim, linkage>>

\* fun of thread t calls constraint_equations, which reads the function
\* attribute, and returns its residuals to least_squares
ConcFunAssemble(t) ==
    /\ prog = "threads"
    /\ call[t].at = "assemble"
    /\ \E r \in {constraint_equations(call[t].cur, call[t].links, call[t].joints,
                     GroundedMask(call[t].links, call[t].non_grounded_indices),
                     call[t].driven, heap, unit_attr)} :
          /\ heap' = r.heap
          /\ IF r.raised # ""
             THEN /\ call' = [call EXCEPT ![t].at = "raised", ![t].active = FALSE,
                                          ![t].used = r.unit_angle]
                  /\ out' = [out EXCEPT ![t] = [raised |-> r.raised]]
             ELSE /\ call' = [call EXCEPT
                                 ![t].at = "fun", ![t].nfev = @ + 1,
                                 ![t].used = r.unit_angle,
                                 ![t].x = IF call[t].keep THEN call[t].cur ELSE @,
                                 ![t].zero = IF call[t].keep THEN AllZero(r.eqs) ELSE @]
                  /\ out' = out
    /\ UNCHANGED <<data, unit_attr, prog, pc, arg, pre, anim, linkage>>

\* least_squares of thread t returns, and solve_linkage writes res.x to the
\* links and returns
ConcFinish(t) ==
    /\ prog = "threads"
    /\ call[t].at = "fun"
    /\ call[t].nfev >= 1
    /\ \E success \in (IF call[t].zero THEN {TRUE} ELSE BOOLEAN) :
          LET res == [x |-> call[t].x, success |-> success]
          IN  /\ heap' = set_link_poses_from_vector(heap, call[t].links, res.x,
                                                    call[t].non_grounded_indices)
              /\ out' = [out EXCEPT ![t] = ReturnValue(call[t].path, res)]
              /\ call' = [call EXCEPT ![t].at = "returned", ![t].active = FALSE]
    /\ UNCHANGED <<data, unit_attr, prog, pc, arg, pre, anim, linkage>>

NextConc ==
    \E t \in Threads :
       ConcCall(t) \/ ConcFunEnter(t) \/ ConcFunAssemble(t) \/ ConcFinish(t)

SpecConc == InitConc /\ [][NextConc]_vars

\* C12: with two solves interleaved, one on a 'deg' mechanism and one on a
\* 'rad' mechanism, every residual evaluation of each solve is computed in the
\* angle unit of its own mechanism.
C12_EachSolveUsesItsOwnUnit ==
    prog = "threads" =>
       \A t \in Threads :
          call[t].at \in {"fun", "assemble", "raised", "returned"}
             => call[t].used \in {"none", call[t].unit_angle}

\* the joint types the document schema names
SchemaTypes == {"revolute", "prismatic", "pin-in-slot", "gear", "weld"}

\* C16: a mechanism with a joint of a type outside the schema is never solved
\* as if the joint were absent: on both entry paths (Linkage2D.from_json and
\* the dict-based solve_linkage) the program ends in the unsupported-type
\* failure, for which the ValueError of from_json is counted, no solve
\* returns, and no link pose is changed.
C16_UnsupportedJointFails ==
    (/\ prog \in {"solve", "solve2d"}
     /\ \E k \in 1..Len(data.joints) : data.joints[k].type \notin SchemaTypes) =>
        /\ pc # "returned"
        /\ pc = "raised" => out.raised \in {"UnsupportedJointType", "ValueError"}
        /\ heap = DeclaredHeap

\* the number of constraint equations of the mechanism of the last solve:
\* the length of the residual vector fun gives, joint residuals and driving
\* residual together
EquationCount == Len(fun(call.x, call, heap).eqs)

\* C17: a solve of a mechanism whose number of unknowns, 3 for each
\* non-grounded link, differs from its number of constraint equations does
\* not return a pose: it ends in the UnderOrOverConstrained failure.
C17_MismatchIsReported ==
    (/\ prog \in {"solve", "solve2d"}
     /\ pc \in {"returned", "raised"}
     /\ Called
     /\ call.nfev >= 1
     /\ fun(call.x, call, heap).raised = ""
     /\ 3 * Len(call.non_grounded_indices) # EquationCount) =>
        (pc = "raised" /\ out.raised = "UnderOrOverConstrained")

\* C18: in animate_linkage2d the driving joint is always a revolute joint:
\* the first revolute joint with id 'R1' when there is one, otherwise the
\* first revolute joint in declaration order; when the mechanism has no
\* revolute joint a ValueError is raised and no solve has been run.
C18_CrankSelection ==
    (prog = "animate2d" /\ anim.phase # "start" /\ from_json(data).raised = "") =>
        LET joints == from_json(data).joints
            revolutes == {k \in 1..Len(joints) : joints[k].type = "revolute"}
            named == {k \in revolutes : joints[k].id = "R1"}
            First(S) == CHOOSE k \in S : \A m \in S : k <= m
        IN  IF revolutes = {}
            THEN /\ anim.phase = "aborted" /\ pc = "raised"
                 /\ out.raised = "ValueError"
                 /\ call = NoCall /\ heap = DeclaredHeap
            ELSE /\ anim.phase # "aborted"
                 /\ anim.crank_joint.type = "revolute"
                 /\ anim.crank_joint
                       = joints[First(IF named # {} THEN named ELSE revolutes)]

\* the crank is the revolute joint 'R1', declared after another revolute
\* joint and after a joint 'R1' that is not revolute
C18_Witness ==
    /\ prog = "animate2d" /\ anim.phase = "bbox"
    /\ data.joints = <<JointR2, JointSR1, JointR1>>
    /\ anim.crank_joint = JointR1

\* C19: two Linkage2D models built by from_json from the same document are
\* independent of each other and of the document: while solve_linkage has
\* been called on one of them only (temp_linkage in animate_linkage2d, the
\* one model of the solve2d program), the other model's link poses and the
\* document's poses are the declared ones.
C19_ModelsIndependent ==
    /\ (prog = "animate2d" /\ anim.phase = "bbox") =>
          /\ PosesOf(linkage.links, heap) = PosesOf(data.links, DeclaredHeap)
          /\ PosesOf(data.links, heap) = PosesOf(data.links, DeclaredHeap)
    /\ (prog = "solve2d" /\ linkage # None) =>
          PosesOf(data.links, heap) = PosesOf(data.links, DeclaredHeap)

\* C11: a solve called with no initial guess, every earlier call on the
\* mechanism having had the same driving constraint and no initial guess,
\* starts its iteration from the non-grounded links' poses as the document
\* declares them.
C11_RepeatedSolvesStartAlike ==
    (prog \in {"solve", "solve2d"} /\ pc = "iterating" /\ arg.repeated)
        => call.x0 = DeclaredPoseVector

Next ==
    \/ CallSolveFile
    \/ AnimationRepeat
    \/ CallSolve \/ Load2D \/ CallSolve2D
    \/ Fun \/ Finish
    \/ AnimateStart \/ AnimateBBoxSolve \/ AnimateFrameSolve \/ AnimateFrameEnd
    \/ Animate2DStart \/ Animate2DBBoxSolve \/ Animate2DFrameSolve \/ Animate2DFrameEnd
    \/ BBoxDone

Spec == Init /\ [][Next]_vars

====
